---- MODULE Spec2Model ----
(***************************************************************************)
(* Lucre: the Monte Carlo retirement engine (services/monte_carlo.py), its *)
(* market-parameter provider (services/fred_data.py) and the two request   *)
(* handlers that drive it (routes/simulation.py).                          *)
(*                                                                         *)
(* Numbers.  The code computes in IEEE doubles.  The model computes in     *)
(* fixed point: a rate, a standard-normal draw, an allocation and the      *)
(* cumulative inflation factor are integers counting 1/FP (0.07 is 70),    *)
(* money is an integer amount, and every product of two scaled numbers is  *)
(* brought back to scale by Mul.  A percentile is kept exactly, as 100     *)
(* times its value; a probability is kept exactly, as num/den.             *)
(* An Optional value is a set: {} is None and {v} is the value v.          *)
(* Arrays are functions on 0..n-1, as numpy indexes them.                  *)
(***************************************************************************)
EXTENDS Integers, Sequences, FiniteSets, TLC

VARIABLES
    engine,      \* services.monte_carlo.engine, the process-wide MonteCarloEngine
    provider,    \* services.fred_data: FRED_API_KEY, _fred_service, the lru_cache
    request,     \* the request the last handler call received
    runs,        \* what each engine.run_simulation call of that handler did, in call order
    response,    \* the handler's HTTP response
    pc,          \* "idle"; "received": a parsed request waits for its handler;
                 \* "responded": the handler returned and its response is being sent
    previous     \* the first run of the /simulation/compare call before the last one

vars == <<engine, provider, request, runs, response, pc, previous>>

-----------------------------------------------------------------------------
(* Bounds of the model *)

\* Largest num_simulations of a request (the schema's range 1000..100000 scaled down).
MaxSims == 3
\* Largest number of alternative scenarios of a /simulation/compare request.
MaxAlts == 1
\* Largest retirement_age - current_age and life_expectancy - retirement_age of a request.
MaxAccumulation == 2
MaxRetirement == 2

-----------------------------------------------------------------------------
(* Fixed point *)

FP == 1000

\* The product of two numbers of scale FP, at scale FP.
Mul(a, b) == (a * b) \div FP

None == {}
Some(v) == {v}
IsNone(o) == o = {}
TheValue(o) == CHOOSE v \in o : TRUE

\* The array f with every element computed now, once, rather than at each read.
Eager(f) == IF f = f THEN f ELSE f

Min2(a, b) == IF a <= b THEN a ELSE b
Max2(a, b) == IF a >= b THEN a ELSE b

\* Largest r with r * r <= n, found by bisection of lo .. hi.
RECURSIVE SqrtBetween(_, _, _)
SqrtBetween(n, lo, hi) ==
    LET mid == (lo + hi + 1) \div 2
    IN  IF lo >= hi THEN lo
        ELSE IF mid * mid <= n THEN SqrtBetween(n, mid, hi)
        ELSE SqrtBetween(n, lo, mid - 1)
ISqrt(n) == SqrtBetween(n, 0, 2 * FP)

-----------------------------------------------------------------------------
(* services/monte_carlo.py and services/fred_data.py: module constants *)

DEFAULT_ASSET_PARAMETERS ==
    [stocks      |-> [mean |-> 70, std |-> 180],
     bonds       |-> [mean |-> 20, std |-> 60],
     inflation   |-> [mean |-> 25, std |-> 12],
     correlation |-> 100]

FALLBACK_PARAMETERS ==
    [stocks      |-> [mean |-> 70, std |-> 180],
     bonds       |-> [mean |-> 20, std |-> 60],
     inflation   |-> [mean |-> 25, std |-> 12],
     correlation |-> 100]

RiskProfile ==
    {"conservative", "moderate_conservative", "moderate",
     "moderate_aggressive", "aggressive", "very_aggressive"}

RISK_ALLOCATIONS ==
    [p \in RiskProfile |->
        CASE p = "conservative"          -> 300
          [] p = "moderate_conservative" -> 400
          [] p = "moderate"              -> 600
          [] p = "moderate_aggressive"   -> 700
          [] p = "aggressive"            -> 800
          [] p = "very_aggressive"       -> 900]

-----------------------------------------------------------------------------
(* numpy.random.default_rng: a deterministic generator.  Its state is one  *)
(* of RngModulus values, every draw advances it by the same congruential   *)
(* step, and the standard-normal value drawn is read off the new state.    *)

RngModulus == 32

\* Standard-normal values (scale FP) a draw can give.
NormalTable == <<-7000, 500, -1500, 3000, 0, -500, 6000, 1500>>

\* The generator's state after one more draw.
RngAdvance(s) == (s * 13 + 11) % RngModulus

\* The standard-normal value a draw returns, read off the state it leaves.
RngNormal(t) == NormalTable[(((t \div 4) + t) % 8) + 1]

\* The seed ignored: the state always comes from OS entropy.
default_rng_unseeded(seed, entropy) == entropy

\* default_rng(seed): a seed fixes the state; seed None takes it from OS entropy.
default_rng(seed, entropy) ==
    IF IsNone(seed) THEN entropy ELSE TheValue(seed) % RngModulus

\* rng.standard_normal(shape) for a shape of `count` cells: the values in C order
\* (values[k + 1] is cell k) and the generator's state afterwards.
RECURSIVE draw(_, _, _)
draw(s, count, values) ==
    IF count = 0 THEN [values |-> values, rng |-> s]
    ELSE draw(RngAdvance(s), count - 1, Append(values, RngNormal(RngAdvance(s))))
standard_normal(s, count) == draw(s, count, <<>>)

-----------------------------------------------------------------------------
(* services/fred_data.py.  A fetched series is known by its length and by  *)
(* the annualised statistics the code derives from it:                     *)
(*   SP500     mean = daily_returns.mean() * 252, std = daily std * sqrt(252) *)
(*   DGS10     mean = yields.mean(), std = yield-change std * 7 * sqrt(252) *)
(*   CPIAUCSL  mean, std of the year-over-year change                      *)
(* One call of get_all_parameters fetches seven times; `net` gives what    *)
(* each fetch returns (None: fred.get_series raised), the length of the    *)
(* date-aligned frame and the correlation pandas computes (None: NaN).     *)

\* _fetch_series: the series, or None when the request raised.
fetch_series(got) == got

\* The length check left out: any series that arrived is used.
get_inflation_stats_any_length(cpi) ==
    IF IsNone(cpi)
    THEN FALLBACK_PARAMETERS.inflation
    ELSE [mean |-> TheValue(cpi).mean, std |-> TheValue(cpi).std]

get_inflation_stats(cpi) ==
    IF IsNone(cpi) \/ TheValue(cpi).n < 12
    THEN FALLBACK_PARAMETERS.inflation
    ELSE [mean |-> TheValue(cpi).mean, std |-> TheValue(cpi).std]

get_stock_returns(sp500, cpi) ==
    IF IsNone(sp500) \/ TheValue(sp500).n < 252
    THEN FALLBACK_PARAMETERS.stocks
    ELSE LET inflation == get_inflation_stats(cpi)
         IN  [mean         |-> TheValue(sp500).mean - inflation.mean,
              std          |-> TheValue(sp500).std,
              nominal_mean |-> TheValue(sp500).mean]

get_bond_returns(treasury, cpi) ==
    IF IsNone(treasury) \/ TheValue(treasury).n < 252
    THEN FALLBACK_PARAMETERS.bonds
    ELSE LET inflation == get_inflation_stats(cpi)
         IN  [mean         |-> TheValue(treasury).mean - inflation.mean,
              std          |-> TheValue(treasury).std,
              nominal_mean |-> TheValue(treasury).mean]

get_stock_bond_correlation(sp500, treasury, aligned, corr) ==
    IF IsNone(sp500) \/ IsNone(treasury)
    THEN FALLBACK_PARAMETERS.correlation
    ELSE IF Min2(aligned, Min2(TheValue(sp500).n, TheValue(treasury).n)) < 252
    THEN FALLBACK_PARAMETERS.correlation
    ELSE IF IsNone(corr) THEN FALLBACK_PARAMETERS.correlation ELSE TheValue(corr)

get_all_parameters(net) ==
    [stocks      |-> get_stock_returns(fetch_series(net.sp500_a), fetch_series(net.cpi_a)),
     bonds       |-> get_bond_returns(fetch_series(net.dgs10_b), fetch_series(net.cpi_b)),
     inflation   |-> get_inflation_stats(fetch_series(net.cpi_c)),
     correlation |-> get_stock_bond_correlation(fetch_series(net.sp500_d),
                         fetch_series(net.dgs10_d), net.aligned, net.corr)]

\* get_fred_service and FredDataService.__init__: the singleton is built on first
\* use, and building it raises ValueError without an API key.
get_fred_service(prov) ==
    IF prov.service THEN [raised |-> FALSE, provider |-> prov]
    ELSE IF ~prov.api_key THEN [raised |-> TRUE, provider |-> prov]
    ELSE [raised |-> FALSE, provider |-> [prov EXCEPT !.service = TRUE]]

\* get_market_parameters: the service's parameters, or FALLBACK_PARAMETERS when
\* building the service raised.  get_all_parameters is under lru_cache(maxsize=1):
\* the last lookback's parameters are kept and returned without fetching.
get_market_parameters(prov, net, lookback_years) ==
    LET svc == get_fred_service(prov)
        hit == /\ ~IsNone(svc.provider.cache)
               /\ TheValue(svc.provider.cache).lookback_years = lookback_years
    IN  IF svc.raised
        THEN [params |-> FALLBACK_PARAMETERS, provider |-> svc.provider]
        ELSE IF hit
        THEN [params |-> TheValue(svc.provider.cache).params, provider |-> svc.provider]
        ELSE LET got == get_all_parameters(net)
             IN  [params   |-> got,
                  provider |-> [svc.provider EXCEPT !.cache =
                        Some([lookback_years |-> lookback_years, params |-> got])]]

\* MonteCarloEngine.asset_parameters: fetched on first use, then kept.
asset_parameters(eng, prov, net) ==
    IF ~IsNone(eng.asset_parameters)
    THEN [params |-> TheValue(eng.asset_parameters), engine |-> eng, provider |-> prov]
    ELSE IF eng.use_fred_data
    THEN LET got == get_market_parameters(prov, net, eng.lookback_years)
         IN  [params   |-> got.params,
              engine   |-> [eng EXCEPT !.asset_parameters = Some(got.params)],
              provider |-> got.provider]
    ELSE [params   |-> DEFAULT_ASSET_PARAMETERS,
          engine   |-> [eng EXCEPT !.asset_parameters = Some(DEFAULT_ASSET_PARAMETERS)],
          provider |-> prov]

\* MonteCarloEngine.__init__, with its defaults use_fred_data=True, lookback_years=30
DefaultLookbackYears == 30
MonteCarloEngine(seed, entropy) ==
    [rng              |-> default_rng(seed, entropy),
     use_fred_data    |-> TRUE,
     lookback_years   |-> DefaultLookbackYears,
     asset_parameters |-> None]

-----------------------------------------------------------------------------
(* MonteCarloEngine._get_stock_allocation and _generate_returns *)

\* The explicit allocation tested for truth: an allocation of 0 counts as not given.
get_stock_allocation_truthy(inputs) ==
    IF ~IsNone(inputs.stock_allocation) /\ TheValue(inputs.stock_allocation) # 0
    THEN TheValue(inputs.stock_allocation)
    ELSE RISK_ALLOCATIONS[inputs.risk_profile]

get_stock_allocation(inputs) ==
    IF ~IsNone(inputs.stock_allocation)
    THEN TheValue(inputs.stock_allocation)
    ELSE RISK_ALLOCATIONS[inputs.risk_profile]

\* The factorisation accepting a zero pivot: only a negative one raises.
cholesky_semidefinite(correlation) ==
    LET pivot == FP * FP - correlation * correlation
    IN  IF pivot < 0
        THEN [raised |-> TRUE, L |-> <<>>]
        ELSE [raised |-> FALSE,
              L |-> << <<FP, 0>>, <<correlation, ISqrt(pivot)>> >>]

\* np.linalg.cholesky([[1, c], [c, 1]]): the lower factor [[1, 0], [c, sqrt(1 - c*c)]]
\* (row l, column k at L[l + 1][k + 1]); LinAlgError when the second pivot 1 - c*c
\* is not positive.
cholesky(correlation) ==
    LET pivot == FP * FP - correlation * correlation
    IN  IF pivot <= 0
        THEN [raised |-> TRUE, L |-> <<>>]
        ELSE [raised |-> FALSE,
              L |-> << <<FP, 0>>, <<correlation, ISqrt(pivot)>> >>]

\* Where cell (i, j, k) of standard_normal((n, years, 2)) lies in the stream, and
\* where cell (i, j) of the later standard_normal((n, years)) does.
PairSlot(years, i, j, k) == 2 * (i * years + j) + k

\* The three (n x years) arrays, from the cells z of standard_normal((n, years, 2))
\* and the cells zi of the later standard_normal((n, years)).
returns_of(params, L, z, zi, n, years) ==
    [stock_returns |-> Eager([i \in 0 .. (n - 1) |-> [j \in 0 .. (years - 1) |->
            params.stocks.mean
            + Mul(params.stocks.std,
                  \* np.einsum('ijk,lk->ijl', z, cholesky)[i, j, 0]
                  Mul(z[PairSlot(years, i, j, 0) + 1], L[1][1])
                  + Mul(z[PairSlot(years, i, j, 1) + 1], L[1][2]))]]),
     bond_returns  |-> Eager([i \in 0 .. (n - 1) |-> [j \in 0 .. (years - 1) |->
            params.bonds.mean
            + Mul(params.bonds.std,
                  Mul(z[PairSlot(years, i, j, 0) + 1], L[2][1])
                  + Mul(z[PairSlot(years, i, j, 1) + 1], L[2][2]))]]),
     inflation     |-> Eager([i \in 0 .. (n - 1) |-> [j \in 0 .. (years - 1) |->
            params.inflation.mean
            + Mul(params.inflation.std, zi[i * years + j + 1])]])]

\* The second draw follows the first on the same generator.
drawn(params, L, z, zi, n, years) ==
    [arrays |-> returns_of(params, L, z.values, zi.values, n, years),
     rng    |-> zi.rng]

draw_inflation(params, L, z, n, years) ==
    drawn(params, L, z, standard_normal(z.rng, n * years), n, years)

draw_returns(params, L, rng, n, years) ==
    draw_inflation(params, L, standard_normal(rng, 2 * n * years), n, years)

\* _generate_returns once self.asset_parameters has answered `ap` and the
\* factorisation `chol`.
generate_drawn(ap, got) ==
    [raised |-> FALSE, params |-> ap.params,
     engine |-> [ap.engine EXCEPT !.rng = got.rng],
     provider |-> ap.provider,
     stock_returns |-> got.arrays.stock_returns,
     bond_returns |-> got.arrays.bond_returns,
     inflation |-> got.arrays.inflation]

generate_factored(ap, chol, n, years) ==
    IF chol.raised
    THEN [raised |-> TRUE, params |-> ap.params, engine |-> ap.engine,
          provider |-> ap.provider,
          stock_returns |-> <<>>, bond_returns |-> <<>>, inflation |-> <<>>]
    ELSE generate_drawn(ap, draw_returns(ap.params, chol.L, ap.engine.rng, n, years))

generate_with(ap, n, years) ==
    generate_factored(ap, cholesky(ap.params.correlation), n, years)

generate_returns(eng, prov, net, n, years) ==
    generate_with(asset_parameters(eng, prov, net), n, years)

-----------------------------------------------------------------------------
(* MonteCarloEngine._simulate_portfolios *)

\* The floor left out: the computed value is stored as it is.
Floor_unclamped(new_value) == new_value

\* np.maximum(new_value, 0)
Floor(new_value) == Max2(new_value, 0)

\* The year loop paying Social Security from the first year on, whatever the
\* claiming age.
new_value_benefit_at_once(inputs, stock_return, bond_return, cum, current_value, year) ==
    LET years_to_retirement == inputs.retirement_age - inputs.current_age
        stock_allocation == get_stock_allocation(inputs)
        bond_allocation  == FP - stock_allocation
        portfolio_return == Mul(stock_allocation, stock_return)
                            + Mul(bond_allocation, bond_return)
        contribution == IF inputs.inflation_adjusted
                        THEN Mul(inputs.annual_contribution, cum)
                        ELSE inputs.annual_contribution
        spending     == IF inputs.inflation_adjusted
                        THEN Mul(inputs.annual_spending, cum)
                        ELSE inputs.annual_spending
        ss_income    == IF /\ ~IsNone(inputs.social_security_age)
                           /\ ~IsNone(inputs.social_security_amount)
                        THEN IF inputs.inflation_adjusted
                             THEN Mul(TheValue(inputs.social_security_amount), cum)
                             ELSE TheValue(inputs.social_security_amount)
                        ELSE 0
        net_withdrawal == spending - ss_income
    IN  IF year < years_to_retirement
        THEN Mul(current_value, FP + portfolio_return) + contribution
        ELSE Mul(current_value, FP + portfolio_return) - net_withdrawal

\* The year loop with the phase test off by one: the retirement year still
\* contributes instead of withdrawing.
new_value_late_retirement(inputs, stock_return, bond_return, cum, current_value, year) ==
    LET years_to_retirement == inputs.retirement_age - inputs.current_age
        stock_allocation == get_stock_allocation(inputs)
        bond_allocation  == FP - stock_allocation
        portfolio_return == Mul(stock_allocation, stock_return)
                            + Mul(bond_allocation, bond_return)
        contribution == IF inputs.inflation_adjusted
                        THEN Mul(inputs.annual_contribution, cum)
                        ELSE inputs.annual_contribution
        spending     == IF inputs.inflation_adjusted
                        THEN Mul(inputs.annual_spending, cum)
                        ELSE inputs.annual_spending
        ss_income    == IF /\ ~IsNone(inputs.social_security_age)
                           /\ ~IsNone(inputs.social_security_amount)
                           /\ inputs.current_age + year
                                >= TheValue(inputs.social_security_age)
                        THEN IF inputs.inflation_adjusted
                             THEN Mul(TheValue(inputs.social_security_amount), cum)
                             ELSE TheValue(inputs.social_security_amount)
                        ELSE 0
        net_withdrawal == spending - ss_income
    IN  IF year <= years_to_retirement
        THEN Mul(current_value, FP + portfolio_return) + contribution
        ELSE Mul(current_value, FP + portfolio_return) - net_withdrawal

\* The year loop adding the contribution unscaled, whatever inflation_adjusted says.
new_value_flat_contribution(inputs, stock_return, bond_return, cum, current_value, year) ==
    LET years_to_retirement == inputs.retirement_age - inputs.current_age
        stock_allocation == get_stock_allocation(inputs)
        bond_allocation  == FP - stock_allocation
        portfolio_return == Mul(stock_allocation, stock_return)
                            + Mul(bond_allocation, bond_return)
        contribution == inputs.annual_contribution
        spending     == IF inputs.inflation_adjusted
                        THEN Mul(inputs.annual_spending, cum)
                        ELSE inputs.annual_spending
        ss_income    == IF /\ ~IsNone(inputs.social_security_age)
                           /\ ~IsNone(inputs.social_security_amount)
                           /\ inputs.current_age + year
                                >= TheValue(inputs.social_security_age)
                        THEN IF inputs.inflation_adjusted
                             THEN Mul(TheValue(inputs.social_security_amount), cum)
                             ELSE TheValue(inputs.social_security_amount)
                        ELSE 0
        net_withdrawal == spending - ss_income
    IN  IF year < years_to_retirement
        THEN Mul(current_value, FP + portfolio_return) + contribution
        ELSE Mul(current_value, FP + portfolio_return) - net_withdrawal

\* The year loop counting Social Security income in accumulation years as well.
new_value_benefit_while_saving(inputs, stock_return, bond_return, cum, current_value, year) ==
    LET years_to_retirement == inputs.retirement_age - inputs.current_age
        stock_allocation == get_stock_allocation(inputs)
        bond_allocation  == FP - stock_allocation
        portfolio_return == Mul(stock_allocation, stock_return)
                            + Mul(bond_allocation, bond_return)
        contribution == IF inputs.inflation_adjusted
                        THEN Mul(inputs.annual_contribution, cum)
                        ELSE inputs.annual_contribution
        spending     == IF inputs.inflation_adjusted
                        THEN Mul(inputs.annual_spending, cum)
                        ELSE inputs.annual_spending
        ss_income    == IF /\ ~IsNone(inputs.social_security_age)
                           /\ ~IsNone(inputs.social_security_amount)
                           /\ inputs.current_age + year
                                >= TheValue(inputs.social_security_age)
                        THEN IF inputs.inflation_adjusted
                             THEN Mul(TheValue(inputs.social_security_amount), cum)
                             ELSE TheValue(inputs.social_security_amount)
                        ELSE 0
        net_withdrawal == spending - ss_income
    IN  IF year < years_to_retirement
        THEN Mul(current_value, FP + portfolio_return) + contribution + ss_income
        ELSE Mul(current_value, FP + portfolio_return) - net_withdrawal

\* One pass of the year loop for trajectory i: the value stored at year + 1, from
\* the value at year and the cumulative inflation already updated for this year.
new_value(inputs, stock_return, bond_return, cum, current_value, year) ==
    LET years_to_retirement == inputs.retirement_age - inputs.current_age
        stock_allocation == get_stock_allocation(inputs)
        bond_allocation  == FP - stock_allocation
        portfolio_return == Mul(stock_allocation, stock_return)
                            + Mul(bond_allocation, bond_return)
        contribution == IF inputs.inflation_adjusted
                        THEN Mul(inputs.annual_contribution, cum)
                        ELSE inputs.annual_contribution
        spending     == IF inputs.inflation_adjusted
                        THEN Mul(inputs.annual_spending, cum)
                        ELSE inputs.annual_spending
        ss_income    == IF /\ ~IsNone(inputs.social_security_age)
                           /\ ~IsNone(inputs.social_security_amount)
                           /\ inputs.current_age + year
                                >= TheValue(inputs.social_security_age)
                        THEN IF inputs.inflation_adjusted
                             THEN Mul(TheValue(inputs.social_security_amount), cum)
                             ELSE TheValue(inputs.social_security_amount)
                        ELSE 0
        net_withdrawal == spending - ss_income
    IN  IF year < years_to_retirement
        THEN Mul(current_value, FP + portfolio_return) + contribution
        ELSE Mul(current_value, FP + portfolio_return) - net_withdrawal

\* A loop keeping one cumulative inflation factor, trajectory 0's, for all
\* trajectories.
RECURSIVE simulate_from_shared_inflation(_, _, _, _, _, _, _)
simulate_from_shared_inflation(inputs, stock_returns, bond_returns, inflation, year, cols, cums) ==
    LET n == inputs.num_simulations
        total_years == (inputs.retirement_age - inputs.current_age)
                       + (inputs.life_expectancy - inputs.retirement_age)
        cum  == Eager([i \in 0 .. (n - 1) |->
                    Mul(cums[year + 1][0], FP + inflation[0][year])])
        next == Eager([i \in 0 .. (n - 1) |->
                    Floor(new_value(inputs, stock_returns[i][year],
                                    bond_returns[i][year], cum[i],
                                    cols[year + 1][i], year))])
    IN  IF year >= total_years
        THEN [cols |-> cols, cums |-> cums]
        ELSE simulate_from_shared_inflation(inputs, stock_returns, bond_returns,
                           inflation, year + 1, Append(cols, next), Append(cums, cum))

\* The loop from `year` on.  cols[t + 1] is column t of the matrix, cums[t + 1] the
\* cumulative inflation vector after t passes.
RECURSIVE simulate_from(_, _, _, _, _, _, _)
simulate_from(inputs, stock_returns, bond_returns, inflation, year, cols, cums) ==
    LET n == inputs.num_simulations
        total_years == (inputs.retirement_age - inputs.current_age)
                       + (inputs.life_expectancy - inputs.retirement_age)
        cum  == Eager([i \in 0 .. (n - 1) |->
                    Mul(cums[year + 1][i], FP + inflation[i][year])])
        next == Eager([i \in 0 .. (n - 1) |->
                    Floor(new_value(inputs, stock_returns[i][year],
                                    bond_returns[i][year], cum[i],
                                    cols[year + 1][i], year))])
    IN  IF year >= total_years
        THEN [cols |-> cols, cums |-> cums]
        ELSE simulate_from(inputs, stock_returns, bond_returns, inflation,
                           year + 1, Append(cols, next), Append(cums, cum))

\* The matrices the finished loop leaves: row i, column t.
simulated(n, total_years, done) ==
    [portfolios |-> Eager([i \in 0 .. (n - 1) |-> [t \in 0 .. total_years |->
                        done.cols[t + 1][i]]]),
     cumulative_inflation |-> Eager([i \in 0 .. (n - 1) |-> [t \in 0 .. total_years |->
                        done.cums[t + 1][i]]])]

simulate_portfolios(inputs, stock_returns, bond_returns, inflation) ==
    simulated(inputs.num_simulations,
              (inputs.retirement_age - inputs.current_age)
                  + (inputs.life_expectancy - inputs.retirement_age),
              simulate_from(inputs, stock_returns, bond_returns, inflation, 0,
                  << [i \in 0 .. (inputs.num_simulations - 1) |->
                        inputs.current_portfolio] >>,
                  << [i \in 0 .. (inputs.num_simulations - 1) |-> FP] >>))

-----------------------------------------------------------------------------
(* Analytics: _calculate_percentiles, _calculate_yearly_projections,       *)
(* _calculate_depletion_metrics                                            *)

\* Column t of a matrix, as numpy's m[:, t].
Column(m, t) == Eager([i \in DOMAIN m |-> m[i][t]])

\* The number of entries of a boolean vector that are TRUE.
CountTrue(b) == Cardinality({i \in DOMAIN b : b[i]})

\* float(np.mean(b)) of a boolean vector, exactly.
MeanOf(b) == [num |-> CountTrue(b), den |-> Cardinality(DOMAIN b)]

\* The values of a vector on 0..n-1 in ascending order, as a sequence.
RECURSIVE SortedFrom(_, _)
SortedFrom(v, left) ==
    IF left = {} THEN <<>>
    ELSE LET i == CHOOSE a \in left : \A b \in left : v[a] <= v[b]
         IN  <<v[i]>> \o SortedFrom(v, left \ {i})
\* Sorted(v) without the sort: the values in row order.
Sorted_as_given(v) == [k \in 1 .. Cardinality(DOMAIN v) |-> v[k - 1]]

Sorted(v) == SortedFrom(v, DOMAIN v)

\* np.percentile(values, q), method "linear", for values already in ascending
\* order s: 100 times the value at the virtual index q/100 * (n - 1) between the
\* two neighbouring order statistics.
percentile(s, q) ==
    LET n    == Len(s)
        pos  == q * (n - 1)
        lo   == pos \div 100
        frac == pos % 100
        hi   == Min2(lo + 1, n - 1)
    IN  s[lo + 1] * 100 + (s[hi + 1] - s[lo + 1]) * frac

percentiles_of(s) ==
    [p10 |-> percentile(s, 10),
     p25 |-> percentile(s, 25),
     p50 |-> percentile(s, 50),
     p75 |-> percentile(s, 75),
     p90 |-> percentile(s, 90)]

calculate_percentiles(values) == percentiles_of(Sorted(values))

\* np.median(values): twice the median (the mean of the two middle order
\* statistics when their number is even), for values in ascending order s.
median2_of(s) ==
    IF Len(s) % 2 = 1 THEN 2 * s[(Len(s) \div 2) + 1]
    ELSE s[Len(s) \div 2] + s[(Len(s) \div 2) + 1]

median2(values) == median2_of(Sorted(values))

\* An entry counting a trajectory at 0 as solvent.
projection_nonnegative(values, inputs, current_year, year_idx) ==
    [age  |-> inputs.current_age + year_idx,
     year |-> current_year + year_idx,
     percentiles |-> calculate_percentiles(values),
     probability_solvent |-> MeanOf([i \in DOMAIN values |-> values[i] >= 0])]

\* One entry of yearly_projections, from column `values` of the matrix.
projection(values, inputs, current_year, year_idx) ==
    [age  |-> inputs.current_age + year_idx,
     year |-> current_year + year_idx,
     percentiles |-> calculate_percentiles(values),
     probability_solvent |-> MeanOf([i \in DOMAIN values |-> values[i] > 0])]

\* The loop stopping one column early.
calculate_yearly_projections_short(portfolios, inputs, current_year) ==
    [k \in 1 .. (Cardinality(DOMAIN portfolios[0]) - 1) |->
        projection(Column(portfolios, k - 1), inputs, current_year, k - 1)]

calculate_yearly_projections(portfolios, inputs, current_year) ==
    [k \in 1 .. Cardinality(DOMAIN portfolios[0]) |->
        projection(Column(portfolios, k - 1), inputs, current_year, k - 1)]

\* np.argmax(mask, axis=1) for one row: the first index holding TRUE, 0 if none.
argmax(row) ==
    IF \E t \in DOMAIN row : row[t]
    THEN CHOOSE t \in DOMAIN row : row[t] /\ \A u \in DOMAIN row : row[u] => t <= u
    ELSE 0

\* portfolios[:, k] for a Python int k: negative k counts from the end, and k
\* outside -width .. width-1 raises IndexError.
py_index(k, width) ==
    IF 0 <= k /\ k < width THEN Some(k)
    ELSE IF -width <= k /\ k < 0 THEN Some(width + k)
    ELSE None

\* The probability reported for one target age, portfolios[:, year_at] being
\* column `at` of the matrix when that index exists.
prob_depleted_at(portfolios, never_depleted, year_at, width, at) ==
    IF year_at < width
    THEN IF IsNone(at) THEN [raised |-> TRUE, value |-> [num |-> 0, den |-> 1]]
         ELSE [raised |-> FALSE,
               value  |-> MeanOf([i \in DOMAIN portfolios |->
                                    portfolios[i][TheValue(at)] <= 0])]
    ELSE [raised |-> FALSE,
          value  |-> MeanOf([i \in DOMAIN portfolios |-> ~never_depleted[i]])]

prob_depleted_by(portfolios, never_depleted, year_at) ==
    prob_depleted_at(portfolios, never_depleted, year_at,
                     Cardinality(DOMAIN portfolios[0]),
                     py_index(year_at, Cardinality(DOMAIN portfolios[0])))

\* depleted_mask = portfolios <= 0
depleted_mask(portfolios) ==
    Eager([i \in DOMAIN portfolios |->
              [t \in DOMAIN portfolios[i] |-> portfolios[i][t] <= 0]])

\* never_depleted = ~depleted_mask.any(axis=1)
never_depleted(mask) ==
    Eager([i \in DOMAIN mask |-> ~(\E t \in DOMAIN mask[i] : mask[i][t])])

\* depletion_years = np.argmax(depleted_mask, axis=1), then
\* depletion_years[never_depleted] = portfolios.shape[1]
depletion_years(mask, never) ==
    Eager([i \in DOMAIN mask |->
              IF never[i] THEN Cardinality(DOMAIN mask[i]) ELSE argmax(mask[i])])

\* The selection ignored: every row is kept.
Select_all(v, rows) == v

\* The selected rows of a vector, renumbered from 0 in row order: v[rows].
Select(v, rows) ==
    [r \in 0 .. (Cardinality(rows) - 1) |->
        v[CHOOSE j \in rows : Cardinality({k \in rows : k < j}) = r]]

\* The median reported only when at least half of the rows deplete.
median_depletion_age_majority(inputs, years, never) ==
    IF 2 * Cardinality({i \in DOMAIN never : ~never[i]}) >= Cardinality(DOMAIN never)
    THEN Some(median2(Select([i \in DOMAIN years |-> inputs.current_age + years[i]],
                             {i \in DOMAIN never : ~never[i]})) \div 2)
    ELSE None

\* int(np.median(depletion_ages)) over the rows that deplete, or None.
median_depletion_age(inputs, years, never) ==
    IF \E i \in DOMAIN never : ~never[i]
    THEN Some(median2(Select([i \in DOMAIN years |-> inputs.current_age + years[i]],
                             {i \in DOMAIN never : ~never[i]})) \div 2)
    ELSE None

\* What _calculate_depletion_metrics returns, with the two vectors it is
\* computed from.
depletion_metrics(inputs, never, years, p85, p90) ==
    [raised |-> p85.raised \/ p90.raised,
     never_depleted  |-> never,
     depletion_years |-> years,
     median_depletion_age |-> median_depletion_age(inputs, years, never),
     prob_depleted_85 |-> p85.value,
     prob_depleted_90 |-> p90.value]

depletion_of(portfolios, inputs, never, years) ==
    depletion_metrics(inputs, never, years,
        prob_depleted_by(portfolios, never, 85 - inputs.current_age),
        prob_depleted_by(portfolios, never, 90 - inputs.current_age))

depletion_from(portfolios, inputs, mask, never) ==
    depletion_of(portfolios, inputs, never, depletion_years(mask, never))

depletion_masked(portfolios, inputs, mask) ==
    depletion_from(portfolios, inputs, mask, never_depleted(mask))

calculate_depletion_metrics(portfolios, inputs) ==
    depletion_masked(portfolios, inputs, depleted_mask(portfolios))

-----------------------------------------------------------------------------
(* MonteCarloEngine.run_simulation *)

\* The two checks with < for <=: equal ages pass.
rejects_strict(inputs) ==
    \/ inputs.retirement_age < inputs.current_age
    \/ inputs.life_expectancy < inputs.retirement_age

\* The two checks that open run_simulation: TRUE when one raises ValueError.
rejects(inputs) ==
    \/ inputs.retirement_age <= inputs.current_age
    \/ inputs.life_expectancy <= inputs.retirement_age

Empty == <<>>

\* What a call leaves behind when it raised before computing `part`.  `before` is
\* the engine and the provider the call started from, what FRED would answer and
\* what the clock shows.
Failed(inputs, before, eng, prov, outcome, params, part) ==
    [inputs |-> inputs, outcome |-> outcome, before |-> before,
     engine |-> eng, provider |-> prov, params |-> params,
     stock_returns |-> part.stock_returns, bond_returns |-> part.bond_returns,
     inflation |-> part.inflation, portfolios |-> part.portfolios,
     cumulative_inflation |-> part.cumulative_inflation,
     never_depleted |-> part.never_depleted,
     depletion_years |-> part.depletion_years,
     result |-> None]

Nothing ==
    [stock_returns |-> Empty, bond_returns |-> Empty, inflation |-> Empty,
     portfolios |-> Empty, cumulative_inflation |-> Empty,
     never_depleted |-> Empty, depletion_years |-> Empty]

\* The SimulationResult run_simulation builds.
SimulationResult(inputs, clock, portfolios, final_portfolios, dep) ==
    [success_probability |->
         MeanOf([i \in DOMAIN final_portfolios |-> final_portfolios[i] > 0]),
     median_final_portfolio2 |-> median2(final_portfolios),
     portfolio_at_retirement |->
         calculate_percentiles(
             Column(portfolios, inputs.retirement_age - inputs.current_age)),
     portfolio_at_end |-> calculate_percentiles(final_portfolios),
     median_depletion_age |-> dep.median_depletion_age,
     probability_depleted_by_85 |-> dep.prob_depleted_85,
     probability_depleted_by_90 |-> dep.prob_depleted_90,
     yearly_projections |->
         calculate_yearly_projections(portfolios, inputs, clock.year),
     inputs |-> inputs,
     simulations_run |-> inputs.num_simulations,
     computation_time_ms |-> clock.elapsed_ms]

\* run_simulation from the depletion metrics on.
run_measured(before, clock, inputs, gen, sim, dep) ==
    IF dep.raised
    THEN Failed(inputs, before, gen.engine, gen.provider, "IndexError",
                Some(gen.params),
                [stock_returns |-> gen.stock_returns,
                 bond_returns |-> gen.bond_returns,
                 inflation |-> gen.inflation, portfolios |-> sim.portfolios,
                 cumulative_inflation |-> sim.cumulative_inflation,
                 never_depleted |-> dep.never_depleted,
                 depletion_years |-> dep.depletion_years])
    ELSE [inputs |-> inputs, outcome |-> "ok", before |-> before,
          engine |-> gen.engine, provider |-> gen.provider,
          params |-> Some(gen.params),
          stock_returns |-> gen.stock_returns, bond_returns |-> gen.bond_returns,
          inflation |-> gen.inflation, portfolios |-> sim.portfolios,
          cumulative_inflation |-> sim.cumulative_inflation,
          never_depleted |-> dep.never_depleted,
          depletion_years |-> dep.depletion_years,
          result |-> Some(SimulationResult(inputs, clock, sim.portfolios,
                        Column(sim.portfolios,
                               inputs.life_expectancy - inputs.current_age),
                        dep))]

\* run_simulation from the simulated matrix on.
run_simulated(before, clock, inputs, gen, sim) ==
    run_measured(before, clock, inputs, gen, sim,
                 calculate_depletion_metrics(sim.portfolios, inputs))

\* run_simulation from the generated returns on.
run_generated(before, clock, inputs, gen) ==
    IF gen.raised
    THEN Failed(inputs, before, gen.engine, gen.provider, "LinAlgError",
                Some(gen.params), Nothing)
    ELSE run_simulated(before, clock, inputs, gen,
             simulate_portfolios(inputs, gen.stock_returns, gen.bond_returns,
                                 gen.inflation))

\* One call of engine.run_simulation(inputs) on engine `eng`: how it ended
\* (outcome), the engine and the provider afterwards, the arrays it built and the
\* SimulationResult it returned.  clock.year is datetime.now().year and
\* clock.elapsed_ms the measured wall-clock time.
run_simulation(eng, prov, net, clock, inputs) ==
    IF rejects(inputs)
    THEN Failed(inputs, [engine |-> eng, provider |-> prov, net |-> net, clock |-> clock], eng, prov,
                "ValueError", None, Nothing)
    ELSE run_generated([engine |-> eng, provider |-> prov, net |-> net, clock |-> clock], clock, inputs,
             generate_returns(eng, prov, net, inputs.num_simulations,
                 (inputs.retirement_age - inputs.current_age)
                     + (inputs.life_expectancy - inputs.retirement_age)))

-----------------------------------------------------------------------------
(* routes/simulation.py: the handlers *)

\* The response of a handler whose engine calls are `done`, in call order: the
\* results when none raised, HTTP 400 for a ValueError, HTTP 500 otherwise.
Respond(done) ==
    LET last == done[Len(done)]
    IN  IF last.outcome = "ok"
        THEN [status |-> 200,
              results |-> [k \in 1 .. Len(done) |-> TheValue(done[k].result)]]
        ELSE IF last.outcome = "ValueError"
        THEN [status |-> 400, results |-> <<>>]
        ELSE [status |-> 500, results |-> <<>>]

\* engine.run_simulation for each scenario in turn on the same engine, stopping at
\* the first call that raises.
RECURSIVE run_each(_, _, _, _, _, _)
ran(r, net, clock, scenarios, done) ==
    IF r.outcome # "ok" THEN Append(done, r)
    ELSE run_each(r.engine, r.provider, net, clock, Tail(scenarios), Append(done, r))

run_each(eng, prov, net, clock, scenarios, done) ==
    IF scenarios = <<>> THEN done
    ELSE ran(run_simulation(eng, prov, net, clock, Head(scenarios)),
             net, clock, scenarios, done)

\* The seed compare_scenarios gives its engine.
CompareSeed == 42

\* POST /simulation/run arrives and is parsed into a SimulationInput.
ReceiveRun(inputs) ==
    /\ pc = "idle"
    /\ pc' = "received"
    /\ request' = [kind |-> "run", scenarios |-> <<inputs>>]
    /\ UNCHANGED <<engine, provider, runs, response, previous>>

\* The handler's engine calls `done` have returned or raised: the response is built.
Handled(eng, done) ==
    /\ engine' = eng
    /\ provider' = done[Len(done)].provider
    /\ runs' = done
    /\ response' = Some(Respond(done))
    /\ pc' = "responded"
    /\ UNCHANGED <<request, previous>>

\* run_monte_carlo_simulation: run_simulation on the process-wide engine.
HandledRun(r) == Handled(r.engine, <<r>>)

run_monte_carlo_simulation(net, clock) ==
    /\ pc = "received"
    /\ request.kind = "run"
    /\ HandledRun(run_simulation(engine, provider, net, clock, request.scenarios[1]))

\* POST /simulation/compare arrives and is parsed into base and alternatives.
ReceiveCompare(base, alternatives) ==
    /\ pc = "idle"
    /\ pc' = "received"
    /\ request' = [kind |-> "compare", scenarios |-> <<base>> \o alternatives]
    /\ UNCHANGED <<engine, provider, runs, response, previous>>

\* compare_scenarios: a new engine seeded with 42 runs the base scenario, then
\* every alternative.
compare_scenarios(net, clock, entropy) ==
    /\ pc = "received"
    /\ request.kind = "compare"
    /\ Handled(engine,
               run_each(MonteCarloEngine(Some(CompareSeed), entropy), provider, net,
                        clock, request.scenarios, <<>>))

\* GET /simulation/market-parameters?lookback_years=...: the provider's parameters
\* for that lookback (get_market_parameters never raises, so never HTTP 500).
market_parameters(net, lookback_years) ==
    /\ pc = "idle"
    /\ LET got == get_market_parameters(provider, net, lookback_years)
       IN  provider' = got.provider
    /\ UNCHANGED <<engine, request, runs, response, pc, previous>>

NoRequest == [kind |-> "none", scenarios |-> <<>>]

\* The response has been sent: the handler's locals are gone.  `previous` keeps the
\* first engine call of a /simulation/compare request for later comparison.
Reply ==
    /\ pc = "responded"
    /\ pc' = "idle"
    /\ previous' = IF request.kind = "compare" THEN Some(runs[1]) ELSE previous
    /\ request' = NoRequest
    /\ runs' = <<>>
    /\ response' = None
    /\ UNCHANGED <<engine, provider>>

-----------------------------------------------------------------------------
(* The requests and the environment the model runs the program on *)

\* schemas/simulation.py, SimulationInput: the Field ranges the request parser
\* enforces (num_simulations, 1000..100000 in the schema, is 1..MaxSims here).
SimulationInput(i) ==
    /\ i.current_age \in 18 .. 100
    /\ i.retirement_age \in 18 .. 100
    /\ i.life_expectancy \in 50 .. 120
    /\ i.current_portfolio >= 0
    /\ i.annual_contribution >= 0
    /\ i.annual_spending > 0
    /\ i.risk_profile \in RiskProfile
    /\ \A a \in i.stock_allocation : 0 <= a /\ a <= FP
    /\ i.num_simulations \in 1 .. MaxSims
    /\ \A a \in i.social_security_age : 62 <= a /\ a <= 70
    /\ \A a \in i.social_security_amount : a >= 0

\* Savings plan of a request: contribution, allocation, inflation flag and Social
\* Security, chosen together.
Plans ==
    { [annual_contribution |-> 300,
       risk_profile |-> "moderate", stock_allocation |-> None,
       inflation_adjusted |-> TRUE,
       social_security_age |-> None, social_security_amount |-> None],
      [annual_contribution |-> 0,
       risk_profile |-> "conservative", stock_allocation |-> Some(1000),
       inflation_adjusted |-> FALSE,
       social_security_age |-> Some(62), social_security_amount |-> Some(900)],
      [annual_contribution |-> 0,
       risk_profile |-> "aggressive", stock_allocation |-> Some(0),
       inflation_adjusted |-> TRUE,
       social_security_age |-> Some(62), social_security_amount |-> Some(200)] }

MakeInput(cur, accum, retire, portfolio, spending, plan, n) ==
    [current_age |-> cur, retirement_age |-> cur + accum,
     life_expectancy |-> cur + accum + retire,
     current_portfolio |-> portfolio,
     annual_contribution |-> plan.annual_contribution,
     annual_spending |-> spending,
     risk_profile |-> plan.risk_profile, stock_allocation |-> plan.stock_allocation,
     num_simulations |-> n, inflation_adjusted |-> plan.inflation_adjusted,
     social_security_age |-> plan.social_security_age,
     social_security_amount |-> plan.social_security_amount]

CurrentAges == {60, 83, 89}

\* Requests whose ages run_simulation accepts.
AcceptedInputs ==
    { MakeInput(cur, accum, retire, portfolio, 400, plan, MaxSims) :
        cur \in CurrentAges, accum \in 1 .. MaxAccumulation,
        retire \in 1 .. MaxRetirement, portfolio \in {0, 1000}, plan \in Plans }

\* Requests with retirement_age <= current_age or life_expectancy <= retirement_age.
RejectedInputs ==
    { MakeInput(cur, span[1], span[2], 1000, 400, plan, MaxSims) :
        cur \in {60, 89}, span \in {<<0, 1>>, <<-1, 2>>, <<1, 0>>, <<2, -1>>, <<0, 0>>},
        plan \in Plans }

\* Requests carrying only one of the two Social Security fields, the age or the
\* amount, old enough in their last year for a benefit to be due.
HalfBenefitInputs ==
    { [MakeInput(60, 1, 2, 1000, 400, plan, MaxSims)
          EXCEPT !.social_security_age = half[1],
                 !.social_security_amount = half[2]] :
        plan \in {p \in Plans : ~IsNone(p.social_security_age)},
        half \in {<<Some(62), None>>, <<None, Some(900)>>} }

\* The requests POST /simulation/run is given.
RunInputs ==
    { i \in AcceptedInputs \cup RejectedInputs \cup HalfBenefitInputs :
        SimulationInput(i) }

\* FRED unreachable: every fetch raises.
NetDown ==
    [sp500_a |-> None, cpi_a |-> None, dgs10_b |-> None, cpi_b |-> None,
     cpi_c |-> None, sp500_d |-> None, dgs10_d |-> None,
     aligned |-> 0, corr |-> None]

\* FRED serving every series in full.
NetUp ==
    [sp500_a |-> Some([n |-> 2500, mean |-> 110, std |-> 200]),
     cpi_a   |-> Some([n |-> 360, mean |-> 30, std |-> 15]),
     dgs10_b |-> Some([n |-> 2500, mean |-> 45, std |-> 70]),
     cpi_b   |-> Some([n |-> 360, mean |-> 30, std |-> 15]),
     cpi_c   |-> Some([n |-> 360, mean |-> 30, std |-> 15]),
     sp500_d |-> Some([n |-> 2500, mean |-> 110, std |-> 200]),
     dgs10_d |-> Some([n |-> 2500, mean |-> 45, std |-> 70]),
     aligned |-> 2500, corr |-> Some(-300)]

\* FRED serving every series, each too short to be used.
NetShort ==
    [sp500_a |-> Some([n |-> 100, mean |-> 110, std |-> 200]),
     cpi_a   |-> Some([n |-> 6, mean |-> 30, std |-> 15]),
     dgs10_b |-> Some([n |-> 100, mean |-> 45, std |-> 70]),
     cpi_b   |-> Some([n |-> 6, mean |-> 30, std |-> 15]),
     cpi_c   |-> Some([n |-> 6, mean |-> 30, std |-> 15]),
     sp500_d |-> Some([n |-> 100, mean |-> 110, std |-> 200]),
     dgs10_d |-> Some([n |-> 100, mean |-> 45, std |-> 70]),
     aligned |-> 100, corr |-> Some(-300)]

\* FRED serving prices and yields but failing every CPI request.
NetNoCPI == [NetUp EXCEPT !.cpi_a = None, !.cpi_b = None, !.cpi_c = None]

\* FRED failing every S&P 500 request.
NetNoStocks == [NetUp EXCEPT !.sp500_a = None, !.sp500_d = None, !.aligned = 0,
                             !.corr = None]

\* FRED failing only the last CPI request and the last yield request.
NetFlaky == [NetUp EXCEPT !.cpi_c = None, !.dgs10_d = None, !.aligned = 0,
                          !.corr = None]

\* FRED serving series whose computed correlation is 1, -1, or past 1 by rounding.
NetPerfect == [NetUp EXCEPT !.corr = Some(FP)]
NetInverse == [NetUp EXCEPT !.corr = Some(-FP)]
NetOver    == [NetUp EXCEPT !.corr = Some(FP + 1)]

Nets == {NetDown, NetUp, NetShort, NetNoCPI, NetNoStocks, NetFlaky,
         NetPerfect, NetInverse, NetOver}

\* The requests POST /simulation/run is given while the provider is watched.
ParamInputs ==
    { i \in { MakeInput(60, 1, 1, 1000, 400, plan, MaxSims) : plan \in Plans }
             \cup { MakeInput(60, 0, 1, 1000, 400, plan, MaxSims) : plan \in Plans } :
        SimulationInput(i) }

\* The FRED answers that matter to a handler using engine eng: those in `nets`
\* when it will fetch, and none of them (FRED is not asked) when it will not.
Fetches(eng, prov, lookback_years) ==
    /\ IsNone(eng.asset_parameters)
    /\ prov.api_key
    /\ \A c \in prov.cache : c.lookback_years # lookback_years
Reached(eng, prov, nets) ==
    IF Fetches(eng, prov, eng.lookback_years) THEN nets ELSE {NetDown}

ClockA == [year |-> 2026, elapsed_ms |-> 40]
ClockB == [year |-> 2027, elapsed_ms |-> 55]

\* The base scenarios POST /simulation/compare is given: two that run_simulation
\* accepts and one with retirement_age = current_age.
BaseInputs ==
    { i \in { MakeInput(60, 1, 1, 1000, 400, CHOOSE p \in Plans : p.annual_contribution > 0,
                        MaxSims),
              MakeInput(83, 1, 1, 0, 400,
                        CHOOSE p \in Plans : p.stock_allocation = Some(0), MaxSims),
              MakeInput(60, 0, 1, 1000, 400,
                        CHOOSE p \in Plans : p.annual_contribution > 0, MaxSims) } :
        SimulationInput(i) }

\* The alternatives a base is compared with: itself, itself with another spending,
\* with a longer retirement, and with life_expectancy = retirement_age.
AlternativesTo(base) ==
    { i \in { base,
              [base EXCEPT !.annual_spending = 600],
              [base EXCEPT !.life_expectancy = base.retirement_age + MaxRetirement],
              [base EXCEPT !.life_expectancy = base.retirement_age] } :
        SimulationInput(i) }

\* Sequences of at most MaxAlts alternatives.
RECURSIVE AlternativeLists(_, _)
AlternativeLists(base, len) ==
    IF len = 0 THEN {<<>>}
    ELSE AlternativeLists(base, len - 1)
         \cup { Append(l, a) : l \in { m \in AlternativeLists(base, len - 1) :
                                          Len(m) = len - 1 },
                                a \in AlternativesTo(base) }

\* The entropy the operating system may hand a new generator.
Entropies == {3, 20}

\* When a comparison is handled: the clock then, and the entropy a new generator
\* would be handed.
Moments == {[clock |-> ClockA, entropy |-> 3], [clock |-> ClockB, entropy |-> 20]}

\* The lookbacks GET /simulation/market-parameters is asked for.
Lookbacks == {10, DefaultLookbackYears}

-----------------------------------------------------------------------------
(* Specifications *)

\* The process after import: the engine singleton is built unseeded, no FRED
\* service exists yet, nothing is cached and no request has arrived.
Init ==
    /\ \E entropy \in Entropies : engine = MonteCarloEngine(None, entropy)
    /\ \E key \in BOOLEAN : provider = [api_key |-> key, service |-> FALSE, cache |-> None]
    /\ request = NoRequest
    /\ runs = <<>>
    /\ response = None
    /\ pc = "idle"
    /\ previous = None

\* POST /simulation/run requests, one after the other.
Next ==
    \/ \E inputs \in RunInputs : ReceiveRun(inputs)
    \/ \E net \in Reached(engine, provider, {NetDown, NetUp}) :
           run_monte_carlo_simulation(net, ClockA)
    \/ Reply

Spec == Init /\ [][Next]_vars

\* POST /simulation/compare and GET /simulation/market-parameters requests, one
\* after the other.
NextCompare ==
    \/ \E base \in BaseInputs : \E alternatives \in AlternativeLists(base, MaxAlts) :
           ReceiveCompare(base, alternatives)
    \/ \E net \in Reached(MonteCarloEngine(Some(CompareSeed), 0), provider,
                           {NetDown, NetUp}) :
           \E moment \in Moments :
               compare_scenarios(net, moment.clock, moment.entropy)
    \/ \E lookback_years \in Lookbacks :
           \E net \in Reached(MonteCarloEngine(None, 0), provider, {NetDown, NetUp}) :
               market_parameters(net, lookback_years)
    \/ Reply

SpecCompare == Init /\ [][NextCompare]_vars

\* POST /simulation/run and GET /simulation/market-parameters requests, one after
\* the other, with FRED failing in part or in full.
NextParams ==
    \/ \E inputs \in ParamInputs : ReceiveRun(inputs)
    \/ \E net \in Reached(engine, provider, Nets) :
           run_monte_carlo_simulation(net, ClockA)
    \/ \E lookback_years \in Lookbacks :
           \E net \in Reached(MonteCarloEngine(None, 0), provider, Nets) :
               market_parameters(net, lookback_years)
    \/ Reply

SpecParams == Init /\ [][NextParams]_vars

\* The requests whose paths are computed from given draws.
PathInputs ==
    { MakeInput(60, 1, MaxRetirement, 1000, 400, plan, MaxSims) : plan \in Plans }

\* One trajectory's row of each of the three arrays _simulate_portfolios is given:
\* a calm market and a falling one with high inflation.
PathRows ==
    { [stock     |-> [t \in 0 .. MaxRetirement |-> 70],
       bond      |-> [t \in 0 .. MaxRetirement |-> 20],
       inflation |-> [t \in 0 .. MaxRetirement |-> 25]],
      [stock     |-> [t \in 0 .. MaxRetirement |-> IF t % 2 = 0 THEN -300 ELSE 250],
       bond      |-> [t \in 0 .. MaxRetirement |-> -50],
       inflation |-> [t \in 0 .. MaxRetirement |-> 60]] }

\* One execution of _simulate_portfolios: its arguments and the matrices it leaves.
paths_of(inputs, stock_returns, bond_returns, inflation, sim) ==
    [inputs |-> inputs, stock_returns |-> stock_returns,
     bond_returns |-> bond_returns, inflation |-> inflation,
     portfolios |-> sim.portfolios,
     cumulative_inflation |-> sim.cumulative_inflation]

paths(inputs, stock_returns, bond_returns, inflation) ==
    paths_of(inputs, stock_returns, bond_returns, inflation,
             simulate_portfolios(inputs, stock_returns, bond_returns, inflation))

\* _simulate_portfolios is called on arrays whose row i is draws[i].
SimulatePaths(inputs, draws) ==
    /\ pc = "idle"
    /\ pc' = "responded"
    /\ request' = [kind |-> "simulate", scenarios |-> <<inputs>>]
    /\ runs' = << paths(inputs,
                        [i \in DOMAIN draws |-> draws[i].stock],
                        [i \in DOMAIN draws |-> draws[i].bond],
                        [i \in DOMAIN draws |-> draws[i].inflation]) >>
    /\ UNCHANGED <<engine, provider, response, previous>>

\* The execution has returned; `previous` keeps it for comparison with the next.
ReturnPaths ==
    /\ pc = "responded"
    /\ request.kind = "simulate"
    /\ pc' = "idle"
    /\ previous' = Some(runs[1])
    /\ request' = NoRequest
    /\ runs' = <<>>
    /\ UNCHANGED <<engine, provider, response>>

\* Executions of _simulate_portfolios on given arrays, one after the other.
NextPaths ==
    \/ \E inputs \in PathInputs : \E draws \in [0 .. (MaxSims - 1) -> PathRows] :
           SimulatePaths(inputs, draws)
    \/ ReturnPaths

SpecPaths == Init /\ [][NextPaths]_vars

-----------------------------------------------------------------------------
(* Properties of the simulated trajectories *)

\* The engine calls of the handler that has just answered.
Calls == IF pc = "responded" THEN {runs[k] : k \in DOMAIN runs} ELSE {}

\* The calls that got as far as the portfolio matrix.
Simulated == {r \in Calls : r.outcome \in {"ok", "IndexError"}}

\* The ages of a request are out of order: retirement not after the current age, or
\* life expectancy not after retirement.
InvalidAges(inputs) ==
    \/ inputs.retirement_age <= inputs.current_age
    \/ inputs.life_expectancy <= inputs.retirement_age

\* Y, the last year index of a call's matrix.
Horizon(r) == r.inputs.life_expectancy - r.inputs.current_age

\* Year t of a call brings no money in: an accumulation year without contribution,
\* or a distribution year whose Social Security income does not exceed spending.
NoInflow(inputs, t) ==
    IF t < inputs.retirement_age - inputs.current_age
    THEN inputs.annual_contribution = 0
    ELSE \/ IsNone(inputs.social_security_age)
         \/ IsNone(inputs.social_security_amount)
         \/ inputs.current_age + t < TheValue(inputs.social_security_age)
         \/ TheValue(inputs.social_security_amount) <= inputs.annual_spending

\* C1 as stated: a trajectory whose value is 0 at year index t is 0 at every later
\* year index, in both phases and with or without Social Security.
C1_AbsorbingEverywhere ==
    \A r \in Simulated : \A i \in DOMAIN r.portfolios :
        \A t \in 0 .. Horizon(r), u \in 0 .. Horizon(r) :
            (t < u /\ r.portfolios[i][t] = 0) => r.portfolios[i][u] = 0

\* C1 as amended: a trajectory whose value is 0 at year index t < Y is 0 at t + 1
\* whenever year t brings no money in (no contribution in an accumulation year, no
\* Social Security above spending in a distribution year).
C1_AbsorbingWithoutInflow ==
    \A r \in Simulated : \A i \in DOMAIN r.portfolios :
        \A t \in 0 .. (Horizon(r) - 1) :
            (r.portfolios[i][t] = 0 /\ NoInflow(r.inputs, t))
                => r.portfolios[i][t + 1] = 0

\* A trajectory that was positive, reached 0 and stayed there in a year without
\* inflow.
C1_Witness ==
    \E r \in Simulated : \E i \in DOMAIN r.portfolios :
        \E t \in 1 .. (Horizon(r) - 1) :
            /\ r.portfolios[i][t - 1] > 0
            /\ r.portfolios[i][t] = 0
            /\ NoInflow(r.inputs, t)
            /\ r.portfolios[i][t + 1] = 0

\* C2: no element of the portfolio matrix is negative, for every trajectory and
\* every year index 0..Y, whatever the returns.
C2_NeverNegative ==
    \A r \in Simulated : \A i \in DOMAIN r.portfolios :
        \A t \in 0 .. Horizon(r) : r.portfolios[i][t] >= 0

\* An all-stock portfolio with money in it met a return below -100% in a year
\* without inflow, and 0 was stored.
C2_Witness ==
    \E r \in Simulated : \E i \in DOMAIN r.portfolios :
        \E t \in 0 .. (Horizon(r) - 1) :
            /\ get_stock_allocation(r.inputs) = FP
            /\ r.stock_returns[i][t] < -FP
            /\ r.portfolios[i][t] > 0
            /\ NoInflow(r.inputs, t)
            /\ r.portfolios[i][t + 1] = 0

-----------------------------------------------------------------------------
(* Properties of the depletion metrics *)

\* The calls that returned a SimulationResult.
Returned == {r \in Calls : r.outcome = "ok"}

\* The trajectories of a call whose value is <= 0 at some year index 0..Y.
Depleting(r) ==
    {i \in DOMAIN r.portfolios : \E t \in 0 .. Horizon(r) : r.portfolios[i][t] <= 0}

\* The year indices after year 0 at which trajectory i is <= 0.
DepletedAfterStart(r, i) == {t \in 1 .. Horizon(r) : r.portfolios[i][t] <= 0}

\* C6 as stated: the depletion year index of a trajectory is the first year index
\* strictly after year 0 with value <= 0, never index 0, and a trajectory with no
\* such index is marked never-depleted.
C6_FirstIndexAfterYearZero ==
    \A r \in Simulated : \A i \in DOMAIN r.portfolios :
        /\ r.never_depleted[i] <=> DepletedAfterStart(r, i) = {}
        /\ ~r.never_depleted[i] =>
               /\ r.depletion_years[i] \in DepletedAfterStart(r, i)
               /\ \A t \in DepletedAfterStart(r, i) : r.depletion_years[i] <= t

\* The fraction of the trajectories of r in the set `rows`.
Fraction(r, rows) == [num |-> Cardinality(rows), den |-> Cardinality(DOMAIN r.portfolios)]

\* What C7 says is reported for a target age.
DepletedBy(r, target) ==
    IF r.inputs.current_age <= target /\ target <= r.inputs.life_expectancy
    THEN Fraction(r, {i \in DOMAIN r.portfolios :
                        r.portfolios[i][target - r.inputs.current_age] <= 0})
    ELSE Fraction(r, Depleting(r))

\* C7 as stated: for every input run_simulation accepts, also with current_age above
\* the target age, probability_depleted_by_85 and _90 are the fraction of
\* trajectories <= 0 at year index target - current_age when the target age is
\* within the horizon, and the fraction ever depleted otherwise.
C7_DepletedByTargetAge ==
    \A r \in Calls : ~InvalidAges(r.inputs) =>
        /\ r.outcome = "ok"
        /\ \A res \in r.result :
              /\ res.probability_depleted_by_85 = DepletedBy(r, 85)
              /\ res.probability_depleted_by_90 = DepletedBy(r, 90)

\* C8 as stated: median_depletion_age is None whenever fewer than half of the
\* trajectories deplete.
C8_AbsentBelowHalf ==
    \A r \in Returned : \A res \in r.result :
        2 * Cardinality(Depleting(r)) < Cardinality(DOMAIN r.portfolios)
            => IsNone(res.median_depletion_age)

\* C8 as amended: median_depletion_age is None whenever no trajectory depletes, and
\* present as soon as one does, also when fewer than half deplete.
C8_AbsentWithoutDepletion ==
    \A r \in Returned : \A res \in r.result :
        /\ Depleting(r) = {} => IsNone(res.median_depletion_age)
        /\ Depleting(r) # {} => ~IsNone(res.median_depletion_age)

\* Fewer than half of the trajectories, but not none, deplete and the median age is
\* reported.
C8_Witness ==
    \E r \in Returned : \E res \in r.result :
        /\ Depleting(r) # {}
        /\ 2 * Cardinality(Depleting(r)) < Cardinality(DOMAIN r.portfolios)
        /\ ~IsNone(res.median_depletion_age)

\* The depletion age of trajectory i: current_age plus its depletion year index.
DepletionAge(r, i) == r.inputs.current_age + r.depletion_years[i]

\* The j-th smallest (j from 1) depletion age among the trajectories `rows`.
OrderStatistic(r, rows, j) ==
    CHOOSE a \in {DepletionAge(r, i) : i \in rows} :
        /\ Cardinality({i \in rows : DepletionAge(r, i) < a}) < j
        /\ j <= Cardinality({i \in rows : DepletionAge(r, i) <= a})

\* Twice the median depletion age over the trajectories `rows`.
TwiceMedianAge(r, rows) ==
    OrderStatistic(r, rows, (Cardinality(rows) + 1) \div 2)
    + OrderStatistic(r, rows, (Cardinality(rows) \div 2) + 1)

\* C9 as stated: median_depletion_age is None exactly when no trajectory depletes,
\* and otherwise equals current_age plus the median depletion year index over the
\* trajectories that deplete.
C9_MedianOverDepleting ==
    \A r \in Returned : \A res \in r.result :
        /\ IsNone(res.median_depletion_age) <=> Depleting(r) = {}
        /\ \A age \in res.median_depletion_age :
               2 * age = TwiceMedianAge(r, Depleting(r))

\* C9 as amended: median_depletion_age is None exactly when no trajectory depletes,
\* and otherwise equals the median, cut down to a whole number, of current_age plus
\* the depletion year index over the trajectories that deplete.
C9_TruncatedMedianOverDepleting ==
    \A r \in Returned : \A res \in r.result :
        /\ IsNone(res.median_depletion_age) <=> Depleting(r) = {}
        /\ \A age \in res.median_depletion_age :
               age = TwiceMedianAge(r, Depleting(r)) \div 2

\* Some trajectories deplete and some never do, the median of the depleting ones
\* falls between two ages, and the lower age is reported.
C9_Witness ==
    \E r \in Returned : \E res \in r.result :
        /\ Depleting(r) # {}
        /\ Depleting(r) # DOMAIN r.portfolios
        /\ TwiceMedianAge(r, Depleting(r)) % 2 = 1
        /\ res.median_depletion_age = Some(TwiceMedianAge(r, Depleting(r)) \div 2)

-----------------------------------------------------------------------------
(* Properties of the handlers *)

\* The calls of the comparison that has just answered, in call order.
Compared == IF pc = "responded" /\ request.kind = "compare" THEN runs ELSE <<>>

\* Two calls have the same number of trajectories and the same horizon length.
SameShape(a, b) ==
    /\ a.inputs.num_simulations = b.inputs.num_simulations
    /\ Horizon(a) = Horizon(b)

\* C3 as stated: in a comparison every scenario with the base's trajectory count and
\* horizon gets the base's stock, bond and inflation draws in every slot, and an
\* alternative equal to the base yields the base's success_probability and
\* percentiles.
C3_SameDrawsAsBase ==
    \A k \in DOMAIN Compared :
        (Compared[1].outcome = "ok" /\ Compared[k].outcome = "ok"
            /\ SameShape(Compared[1], Compared[k]))
        => /\ Compared[k].stock_returns = Compared[1].stock_returns
           /\ Compared[k].bond_returns = Compared[1].bond_returns
           /\ Compared[k].inflation = Compared[1].inflation
           /\ Compared[k].inputs = Compared[1].inputs
                => \A a \in Compared[k].result, b \in Compared[1].result :
                      /\ a.success_probability = b.success_probability
                      /\ a.portfolio_at_retirement = b.portfolio_at_retirement
                      /\ a.portfolio_at_end = b.portfolio_at_end

\* C4: run_simulation raises ValueError for every input with retirement_age <=
\* current_age or life_expectancy <= retirement_age, builds nothing and draws
\* nothing, leaves the input as given, and a request holding such a scenario is
\* answered with an error and no results, HTTP 400 when that scenario was reached.
C4_RejectsInvalidAges ==
    /\ \A r \in Calls : InvalidAges(r.inputs) =>
          /\ r.outcome = "ValueError"
          /\ IsNone(r.result)
          /\ r.portfolios = Empty
          /\ r.engine = r.before.engine
    /\ pc = "responded" =>
          /\ \A k \in DOMAIN runs : runs[k].inputs = request.scenarios[k]
          /\ \A res \in response :
                (\E k \in DOMAIN request.scenarios : InvalidAges(request.scenarios[k]))
                    => /\ res.status # 200
                       /\ res.results = <<>>
                       /\ runs[Len(runs)].outcome = "ValueError" => res.status = 400

\* A comparison whose base ran and whose alternative has life_expectancy =
\* retirement_age was answered HTTP 400 with no results.
C4_Witness ==
    /\ Len(Compared) = 2
    /\ Compared[1].outcome = "ok"
    /\ Compared[2].inputs.life_expectancy = Compared[2].inputs.retirement_age
    /\ Compared[2].outcome = "ValueError"
    /\ response = Some([status |-> 400, results |-> <<>>])

\* The generator state k draws after state s.
RECURSIVE StreamAt(_, _)
StreamAt(s, k) == IF k = 0 THEN s ELSE StreamAt(RngAdvance(s), k - 1)

\* The base call of this comparison and of the one before both returned, on the same
\* input and the same asset parameters.
Repeated ==
    /\ Len(Compared) >= 1
    /\ ~IsNone(previous)
    /\ Compared[1].outcome = "ok"
    /\ TheValue(previous).outcome = "ok"
    /\ TheValue(previous).inputs = Compared[1].inputs
    /\ TheValue(previous).params = Compared[1].params

\* The computed part of a SimulationResult.
Computed(res) ==
    [success_probability |-> res.success_probability,
     median_final_portfolio2 |-> res.median_final_portfolio2,
     portfolio_at_retirement |-> res.portfolio_at_retirement,
     portfolio_at_end |-> res.portfolio_at_end,
     median_depletion_age |-> res.median_depletion_age,
     probability_depleted_by_85 |-> res.probability_depleted_by_85,
     probability_depleted_by_90 |-> res.probability_depleted_by_90,
     yearly |-> [k \in DOMAIN res.yearly_projections |->
                    [percentiles |-> res.yearly_projections[k].percentiles,
                     probability_solvent |->
                        res.yearly_projections[k].probability_solvent]]]

\* C5: two runs from the same seed with the same input and the same asset parameters
\* start from the same generator state, draw the stock/bond pairs of all cells and
\* then the inflation of all cells, and give the same computed results.
C5_Deterministic ==
    Repeated =>
        LET a == TheValue(previous)
            b == Compared[1]
            cells == b.inputs.num_simulations * Horizon(b)
        IN  /\ a.before.engine.rng = b.before.engine.rng
            /\ a.stock_returns = b.stock_returns
            /\ a.bond_returns = b.bond_returns
            /\ a.inflation = b.inflation
            /\ b.inflation[0][0] = TheValue(b.params).inflation.mean
                    + Mul(TheValue(b.params).inflation.std,
                          RngNormal(StreamAt(b.before.engine.rng, 2 * cells + 1)))
            /\ a.engine.rng = StreamAt(a.before.engine.rng, 3 * cells)
            /\ b.engine.rng = StreamAt(b.before.engine.rng, 3 * cells)
            /\ \A x \in a.result, y \in b.result : Computed(x) = Computed(y)

\* The same base was compared twice on the same parameters, by two engines built
\* from different entropy at different times.
C5_Witness ==
    /\ Repeated
    /\ TheValue(previous).result # Compared[1].result
    /\ \E x \in TheValue(previous).result, y \in Compared[1].result :
          x.computation_time_ms # y.computation_time_ms

-----------------------------------------------------------------------------
(* Properties of parameter retrieval *)

\* The calls that had to retrieve the asset parameters: the age checks passed and
\* the engine held none yet.
Retrieving ==
    {r \in Calls : ~InvalidAges(r.inputs) /\ IsNone(r.before.engine.asset_parameters)}

\* The provider could not be constructed: no API key.
Unbuilt(r) == ~r.before.provider.api_key

\* The call asked FRED: the provider has a key and nothing cached for the lookback.
Asked(r) ==
    /\ r.before.provider.api_key
    /\ \A c \in r.before.provider.cache :
          c.lookback_years # r.before.engine.lookback_years

\* A fetched series is missing or shorter than `least`.
Unusable(series, least) == IsNone(series) \/ \E s \in series : s.n < least

\* No correlation can be computed from what FRED answered.
Uncorrelated(net) ==
    \/ IsNone(net.sp500_d)
    \/ IsNone(net.dgs10_d)
    \/ net.aligned < 252
    \/ IsNone(net.corr)

\* Some group of parameters cannot be computed from what FRED answered.
SomeUnusable(net) ==
    \/ Unusable(net.sp500_a, 252) \/ Unusable(net.cpi_a, 12)
    \/ Unusable(net.dgs10_b, 252) \/ Unusable(net.cpi_b, 12)
    \/ Unusable(net.cpi_c, 12) \/ Uncorrelated(net)

\* No group of parameters can be computed from what FRED answered.
AllUnusable(net) ==
    /\ Unusable(net.sp500_a, 252) /\ Unusable(net.dgs10_b, 252)
    /\ Unusable(net.cpi_c, 12) /\ Uncorrelated(net)

\* The documented fallback set.
FallbackSet ==
    [stocks |-> [mean |-> 70, std |-> 180], bonds |-> [mean |-> 20, std |-> 60],
     inflation |-> [mean |-> 25, std |-> 12], correlation |-> 100]

\* C10 as stated: whenever retrieval fails (no provider, or a fetched series missing
\* or too short) the simulation completes and uses the fallback set in every field.
C10_FallbackSetOnAnyFailure ==
    \A r \in Retrieving :
        (Unbuilt(r) \/ (Asked(r) /\ SomeUnusable(r.before.net)))
            => /\ r.outcome = "ok"
               /\ r.params = Some(FallbackSet)

\* C10 as amended: retrieval never raises; the parameters equal the fallback set in
\* every field when the provider cannot be built or no group can be computed, and
\* otherwise each group whose own series is missing or too short takes its fallback
\* values, whatever the other groups hold.
C10_FallbackPerGroup ==
    \A r \in Retrieving :
        /\ r.outcome # "ValueError"
        /\ ~IsNone(r.params)
        /\ (Unbuilt(r) \/ (Asked(r) /\ AllUnusable(r.before.net)))
              => r.params = Some(FallbackSet)
        /\ Asked(r) => \A p \in r.params :
              /\ Unusable(r.before.net.sp500_a, 252) => p.stocks = FallbackSet.stocks
              /\ Unusable(r.before.net.dgs10_b, 252) => p.bonds = FallbackSet.bonds
              /\ Unusable(r.before.net.cpi_c, 12) => p.inflation = FallbackSet.inflation
              /\ Uncorrelated(r.before.net) => p.correlation = FallbackSet.correlation

\* FRED failed the CPI requests only, and the simulation ran on fallback inflation
\* next to stock figures computed from the live series.
C10_Witness ==
    \E r \in Retrieving : \E p \in r.params :
        /\ Asked(r)
        /\ Unusable(r.before.net.cpi_c, 12)
        /\ ~Unusable(r.before.net.sp500_a, 252)
        /\ r.outcome = "ok"
        /\ p.inflation = FallbackSet.inflation
        /\ p.stocks.std # FallbackSet.stocks.std

-----------------------------------------------------------------------------
(* Properties of the SimulationResult *)

\* C11: a returned result holds exactly life_expectancy - current_age + 1 yearly
\* projections in year-index order; the one at index i has age current_age + i and
\* calendar year (current year at run time) + i, so the first has age current_age
\* and the last has age life_expectancy.
C11_OneProjectionPerYear ==
    \A r \in Returned : \A res \in r.result :
        /\ DOMAIN res.yearly_projections = 1 .. (Horizon(r) + 1)
        /\ \A k \in DOMAIN res.yearly_projections :
              /\ res.yearly_projections[k].age = r.inputs.current_age + (k - 1)
              /\ res.yearly_projections[k].year = r.before.clock.year + (k - 1)
        /\ res.yearly_projections[1].age = r.inputs.current_age
        /\ res.yearly_projections[Len(res.yearly_projections)].age
              = r.inputs.life_expectancy

\* A result over the longest horizon, from age 60 to the last simulated age.
C11_Witness ==
    \E r \in Returned : \E res \in r.result :
        /\ Horizon(r) = MaxAccumulation + MaxRetirement
        /\ Len(res.yearly_projections) = MaxAccumulation + MaxRetirement + 1
        /\ res.yearly_projections[1].age = 60
        /\ res.yearly_projections[Len(res.yearly_projections)].age
              = 60 + MaxAccumulation + MaxRetirement

-----------------------------------------------------------------------------
(* Properties of the correlated draws *)

Ordered(po) ==
    /\ po.p10 <= po.p25
    /\ po.p25 <= po.p50
    /\ po.p50 <= po.p75
    /\ po.p75 <= po.p90

\* C13: every PercentileOutcome of a result (portfolio_at_retirement,
\* portfolio_at_end and the percentiles of every yearly projection) has
\* p10 <= p25 <= p50 <= p75 <= p90.
C13_PercentilesAscend ==
    \A r \in Returned : \A res \in r.result :
        /\ Ordered(res.portfolio_at_retirement)
        /\ Ordered(res.portfolio_at_end)
        /\ \A k \in DOMAIN res.yearly_projections :
              Ordered(res.yearly_projections[k].percentiles)

\* A result whose final cross-section is 0 for all trajectories but one, and one
\* whose cross-section is 0 throughout.
C13_Witness ==
    \E r \in Returned : \E res \in r.result :
        /\ Cardinality({i \in DOMAIN r.portfolios : r.portfolios[i][Horizon(r)] = 0})
              = Cardinality(DOMAIN r.portfolios) - 1
        /\ res.portfolio_at_end.p10 = 0
        /\ res.portfolio_at_end.p90 > 0
        /\ \E k \in DOMAIN res.yearly_projections :
              res.yearly_projections[k].percentiles.p90 = 0

-----------------------------------------------------------------------------
(* Properties of the yearly recurrence *)

\* The stock allocation of a request: the explicit one when supplied, the risk
\* profile's table value otherwise.
ChosenAllocation(inputs) ==
    IF inputs.stock_allocation # {}
    THEN CHOOSE a \in inputs.stock_allocation : TRUE
    ELSE RISK_ALLOCATIONS[inputs.risk_profile]

\* v_t * (1 + r_t) for trajectory i of call r at year index t, with stock
\* allocation a and bond allocation 1 - a.
Growth(r, i, t, a) ==
    Mul(r.portfolios[i][t],
        FP + (Mul(a, r.stock_returns[i][t]) + Mul(FP - a, r.bond_returns[i][t])))

\* A base amount as applied at year index t: times the cumulative inflation factor
\* of trajectory i after year t's inflation when inflation_adjusted, as it is
\* otherwise.
Scaled(r, i, t, amount) ==
    IF r.inputs.inflation_adjusted
    THEN Mul(amount, r.cumulative_inflation[i][t + 1])
    ELSE amount

\* The Social Security income of year t: paid in a distribution year from
\* social_security_age on when age and amount are both configured.
Benefit(r, i, t) ==
    IF /\ r.inputs.social_security_age # {}
       /\ r.inputs.social_security_amount # {}
       /\ r.inputs.current_age + t >= r.inputs.retirement_age
       /\ \A a \in r.inputs.social_security_age : r.inputs.current_age + t >= a
    THEN Scaled(r, i, t, CHOOSE a \in r.inputs.social_security_amount : TRUE)
    ELSE 0

\* The money added to the grown value at year t: the contribution in an
\* accumulation year, Social Security less spending in a distribution year.
CashFlow(r, i, t) ==
    IF r.inputs.current_age + t < r.inputs.retirement_age
    THEN Scaled(r, i, t, r.inputs.annual_contribution)
    ELSE Benefit(r, i, t) - Scaled(r, i, t, r.inputs.annual_spending)

\* C14: the stock allocation of a run is the input's explicit stock_allocation when
\* one is supplied (0 included) and the risk profile's table value otherwise, the
\* bond allocation is 1 minus it, and every year of every trajectory grows by them.
C14_AllocationRule ==
    \A r \in Simulated : \A i \in DOMAIN r.portfolios :
        \A t \in 0 .. (Horizon(r) - 1) :
            r.portfolios[i][t + 1]
                = Max2(0, Growth(r, i, t, ChosenAllocation(r.inputs)) + CashFlow(r, i, t))

\* A run with an explicit stock allocation of 0 under the aggressive profile, in a
\* year where stocks and bonds returned differently and the value stayed positive.
C14_Witness ==
    \E r \in Simulated : \E i \in DOMAIN r.portfolios :
        \E t \in 0 .. (Horizon(r) - 1) :
            /\ r.inputs.stock_allocation = Some(0)
            /\ r.inputs.risk_profile = "aggressive"
            /\ r.stock_returns[i][t] # r.bond_returns[i][t]
            /\ r.portfolios[i][t] > 0
            /\ r.portfolios[i][t + 1] > 0

\* C15: at every year index t the next value is max(0, v_t * (1 + r_t) +
\* contribution) when current_age + t < retirement_age and max(0, v_t * (1 + r_t) -
\* (spending - Social Security income)) otherwise, the same for every trajectory;
\* retirement_age - current_age contribution steps are followed by life_expectancy -
\* retirement_age withdrawal steps, and the column at index retirement_age -
\* current_age, which portfolio_at_retirement summarises, comes from a
\* contribution step.
C15_PhaseRule ==
    \A r \in Simulated :
        LET switch == r.inputs.retirement_age - r.inputs.current_age
            allocation == get_stock_allocation(r.inputs)
        IN  /\ switch >= 1
            /\ Horizon(r) - switch = r.inputs.life_expectancy - r.inputs.retirement_age
            /\ Horizon(r) - switch >= 1
            /\ \A i \in DOMAIN r.portfolios :
                  /\ \A t \in 0 .. (switch - 1) :
                        r.portfolios[i][t + 1]
                            = Max2(0, Growth(r, i, t, allocation)
                                      + Scaled(r, i, t, r.inputs.annual_contribution))
                  /\ \A t \in switch .. (Horizon(r) - 1) :
                        r.portfolios[i][t + 1]
                            = Max2(0, Growth(r, i, t, allocation)
                                      - (Scaled(r, i, t, r.inputs.annual_spending)
                                         - Benefit(r, i, t)))
            /\ \A res \in r.result :
                  res.portfolio_at_retirement
                      = calculate_percentiles([i \in DOMAIN r.portfolios |->
                                                  r.portfolios[i][switch]])

\* A trajectory that grew by its contribution through two accumulation years and
\* then shrank through two withdrawal years without running out.
C15_Witness ==
    \E r \in Returned : \E i \in DOMAIN r.portfolios :
        /\ r.inputs.retirement_age - r.inputs.current_age = 2
        /\ Horizon(r) = 4
        /\ r.inputs.annual_contribution > 0
        /\ r.portfolios[i][2] = Growth(r, i, 1, get_stock_allocation(r.inputs))
                                + Scaled(r, i, 1, r.inputs.annual_contribution)
        /\ r.portfolios[i][3] < r.portfolios[i][2]
        /\ r.portfolios[i][4] > 0

\* The cumulative inflation factor of trajectory i follows the running product of
\* (1 + inflation rate), starting from 1, through every year of the horizon.
RunningProduct(r, i) ==
    /\ r.cumulative_inflation[i][0] = FP
    /\ \A t \in 0 .. (Horizon(r) - 1) :
          r.cumulative_inflation[i][t + 1]
              = Mul(r.cumulative_inflation[i][t], FP + r.inflation[i][t])

\* The cash flow of year t with its amounts scaled by the cumulative inflation
\* factor of the elapsed years 0 .. t-1 (1 at year index 0) when inflation_adjusted.
CashFlowOfElapsedYears(r, i, t) ==
    LET factor == IF r.inputs.inflation_adjusted
                  THEN r.cumulative_inflation[i][t] ELSE FP
        benefit == IF Benefit(r, i, t) = 0 THEN 0
                   ELSE Mul(CHOOSE a \in r.inputs.social_security_amount : TRUE, factor)
    IN  IF r.inputs.current_age + t < r.inputs.retirement_age
        THEN Mul(r.inputs.annual_contribution, factor)
        ELSE benefit - Mul(r.inputs.annual_spending, factor)

\* C16 as stated: with inflation_adjusted the flow applied at year index t is the
\* base amount times the cumulative inflation factor of the elapsed years, 1 at year
\* index 0, so the first year's flow is the base amount; with the flag clear every
\* flow is its base amount.
C16_FlowScaledByElapsedInflation ==
    \A r \in Simulated : \A i \in DOMAIN r.portfolios :
        /\ RunningProduct(r, i)
        /\ \A t \in 0 .. (Horizon(r) - 1) :
              r.portfolios[i][t + 1] > 0
                  => r.portfolios[i][t + 1]
                         - Growth(r, i, t, get_stock_allocation(r.inputs))
                     = CashFlowOfElapsedYears(r, i, t)

\* C16 as amended: with inflation_adjusted the flow applied at year index t is the
\* base amount times the running product of (1 + inflation rate) over the year
\* indices 0 .. t, year t included, accumulated through the accumulation years as
\* well, so the first year's flow is the base amount times (1 + inflation_0); with
\* the flag clear every flow is its base amount.
C16_FlowScaledByInflationToDate ==
    \A r \in Simulated : \A i \in DOMAIN r.portfolios :
        /\ RunningProduct(r, i)
        /\ \A t \in 0 .. (Horizon(r) - 1) :
              r.portfolios[i][t + 1] > 0
                  => r.portfolios[i][t + 1]
                         - Growth(r, i, t, get_stock_allocation(r.inputs))
                     = CashFlow(r, i, t)

\* An inflation-adjusted run whose first contribution was already scaled by the
\* first year's inflation and whose first spending carried the inflation of the
\* accumulation years.
C16_Witness ==
    \E r \in Simulated : \E i \in DOMAIN r.portfolios :
        LET switch == r.inputs.retirement_age - r.inputs.current_age
        IN  /\ r.inputs.inflation_adjusted
            /\ r.inputs.annual_contribution > 0
            /\ r.inflation[i][0] # 0
            /\ r.portfolios[i][1] - Growth(r, i, 0, get_stock_allocation(r.inputs))
                  = Mul(r.inputs.annual_contribution, FP + r.inflation[i][0])
            /\ r.portfolios[i][1] - Growth(r, i, 0, get_stock_allocation(r.inputs))
                  # r.inputs.annual_contribution
            /\ r.portfolios[i][switch + 1] > 0
            /\ r.cumulative_inflation[i][switch] # FP

\* The Social Security income that entered the step from t to t + 1 of trajectory
\* i: what the stored value holds beyond growth plus contribution, or beyond growth
\* less spending.
IncomeApplied(r, i, t) ==
    r.portfolios[i][t + 1] - Growth(r, i, t, get_stock_allocation(r.inputs))
        - (IF r.inputs.current_age + t < r.inputs.retirement_age
           THEN Scaled(r, i, t, r.inputs.annual_contribution)
           ELSE - Scaled(r, i, t, r.inputs.annual_spending))

\* C17: Social Security income enters a year's cash flow only when age and amount
\* are both configured, the year is a distribution year and current_age + t >=
\* social_security_age; then it is the amount, scaled by the cumulative inflation
\* factor like spending when inflation_adjusted; it is 0 in every accumulation year
\* and for an input carrying only one of the two fields.
C17_BenefitRule ==
    \A r \in Simulated : \A i \in DOMAIN r.portfolios :
        \A t \in 0 .. (Horizon(r) - 1) :
            r.portfolios[i][t + 1] > 0 =>
                IncomeApplied(r, i, t) =
                    IF /\ r.inputs.social_security_age # {}
                       /\ r.inputs.social_security_amount # {}
                       /\ t >= r.inputs.retirement_age - r.inputs.current_age
                       /\ \A a \in r.inputs.social_security_age :
                             r.inputs.current_age + t >= a
                    THEN IF r.inputs.inflation_adjusted
                         THEN Mul(CHOOSE a \in r.inputs.social_security_amount : TRUE,
                                  r.cumulative_inflation[i][t + 1])
                         ELSE CHOOSE a \in r.inputs.social_security_amount : TRUE
                    ELSE 0

\* A saver past social_security_age got no benefit in the accumulation year and an
\* inflation-scaled benefit in the first distribution year.
C17_Witness ==
    \E r \in Simulated : \E i \in DOMAIN r.portfolios :
        LET switch == r.inputs.retirement_age - r.inputs.current_age
        IN  /\ r.inputs.social_security_age = Some(62)
            /\ r.inputs.current_age > 62
            /\ r.inputs.inflation_adjusted
            /\ r.portfolios[i][switch] > 0
            /\ IncomeApplied(r, i, switch - 1) = 0
            /\ r.portfolios[i][switch + 1] > 0
            /\ r.cumulative_inflation[i][switch + 1] # FP
            /\ IncomeApplied(r, i, switch)
                  = Mul(TheValue(r.inputs.social_security_amount),
                        r.cumulative_inflation[i][switch + 1])
            /\ IncomeApplied(r, i, switch) > 0

\* A request with a Social Security age but no amount reached that age in a
\* distribution year and no income entered.
C17_HalfConfigured ==
    \E r \in Simulated : \E i \in DOMAIN r.portfolios :
        /\ r.inputs.social_security_age = Some(62)
        /\ IsNone(r.inputs.social_security_amount)
        /\ r.portfolios[i][Horizon(r)] > 0
        /\ r.inputs.current_age + Horizon(r) - 1 >= 62
        /\ IncomeApplied(r, i, Horizon(r) - 1) = 0

\* The two latest executions of _simulate_portfolios, when the later has finished.
Executions ==
    IF pc = "responded" /\ request.kind = "simulate"
    THEN {<<a, runs[1]>> : a \in previous}
    ELSE {}

\* Row i of execution a's three input arrays is row j of execution b's.
SameDraws(a, i, b, j) ==
    /\ a.stock_returns[i] = b.stock_returns[j]
    /\ a.bond_returns[i] = b.bond_returns[j]
    /\ a.inflation[i] = b.inflation[j]

\* C18: the portfolio path of a trajectory depends only on the SimulationInput and
\* on that trajectory's own row of stock returns, bond returns and inflation: two
\* executions on the same input give trajectories with the same rows the same value
\* at every year index, whatever the other trajectories drew.
C18_TrajectoryIndependence ==
    \A e \in Executions :
        e[1].inputs = e[2].inputs =>
            \A i \in DOMAIN e[1].portfolios : \A j \in DOMAIN e[2].portfolios :
                SameDraws(e[1], i, e[2], j) =>
                    \A t \in DOMAIN e[1].portfolios[i] :
                        e[1].portfolios[i][t] = e[2].portfolios[j][t]

\* Two executions on the same inflation-adjusted input agreed on trajectory 1's
\* rows and differed in every other trajectory's rows and path, trajectory 0's
\* inflation included.
C18_Witness ==
    \E e \in Executions :
        /\ e[1].inputs = e[2].inputs
        /\ e[1].inputs.inflation_adjusted
        /\ SameDraws(e[1], 1, e[2], 1)
        /\ e[1].portfolios[1] = e[2].portfolios[1]
        /\ \A i \in DOMAIN e[1].portfolios \ {1} :
              /\ ~SameDraws(e[1], i, e[2], i)
              /\ e[1].portfolios[i] # e[2].portfolios[i]
        /\ e[1].inflation[0] # e[2].inflation[0]

\* p <= q for two fractions.
AtMost(p, q) == p.num * q.den <= q.num * p.den

\* The fraction of the trajectories of r with portfolio <= 0 at the last simulated
\* year.
DepletedAtEnd(r) ==
    Fraction(r, {i \in DOMAIN r.portfolios : r.portfolios[i][Horizon(r)] <= 0})

\* C19 as stated: for every valid input and every set of return paths,
\* probability_depleted_by_85 <= probability_depleted_by_90, and the value reported
\* for a target age beyond the horizon is at least the fraction of trajectories
\* with portfolio <= 0 at the last simulated year.
C19_MonotoneInTargetAge ==
    \A r \in Returned : \A res \in r.result :
        /\ AtMost(res.probability_depleted_by_85, res.probability_depleted_by_90)
        /\ r.inputs.life_expectancy < 85 =>
               AtMost(DepletedAtEnd(r), res.probability_depleted_by_85)
        /\ r.inputs.life_expectancy < 90 =>
               AtMost(DepletedAtEnd(r), res.probability_depleted_by_90)

\* The part of C19 about target ages beyond the horizon, on its own.
C19_BeyondHorizonBound ==
    \A r \in Returned : \A res \in r.result :
        /\ r.inputs.life_expectancy < 85 =>
               AtMost(DepletedAtEnd(r), res.probability_depleted_by_85)
        /\ r.inputs.life_expectancy < 90 =>
               AtMost(DepletedAtEnd(r), res.probability_depleted_by_90)

\* A saver of 89 starting from nothing: every trajectory is reported depleted by 85
\* and none by 90.
C19_Reversed ==
    \E r \in Returned : \E res \in r.result :
        /\ r.inputs.current_age = 89
        /\ r.inputs.life_expectancy = 92
        /\ r.inputs.current_portfolio = 0
        /\ res.probability_depleted_by_85.num = res.probability_depleted_by_85.den
        /\ res.probability_depleted_by_90.num = 0

\* The PercentileOutcome whose five percentiles all equal v.
AllEqual(v) ==
    [p10 |-> 100 * v, p25 |-> 100 * v, p50 |-> 100 * v, p75 |-> 100 * v,
     p90 |-> 100 * v]

====
